---- MODULE Spec2Model ----
(***************************************************************************)
(* Model of langchain_hcx/embeddings/hyperclova_embedding.py:              *)
(* the HCXEmbeddings client, its construction-time validator, the two      *)
(* single-text request helpers (_send_request over http.client and         *)
(* _asend_request over aiohttp) and the four public embedding operations.  *)
(*                                                                         *)
(* A blocking caller and a non-blocking caller run the same operation on   *)
(* the same argument against the same mocked provider, so that the two     *)
(* paths can be compared.  The provider is a script: the n-th request a    *)
(* path sends is answered by script[n].                                    *)
(***************************************************************************)
EXTENDS Integers, Sequences, FiniteSets, TLC

VARIABLES
    values,      \* constructor input: the field values handed to the validator
    environ,     \* constructor input: os.environ
    client,      \* the HCXEmbeddings object (or the failed construction)
    call,        \* the operation in progress: api, argument, provider script
    pc,          \* per path: position of the caller in the operation
    idx,         \* per path: position of the `for text in texts` loop
    embeddings,  \* per path: the local list `embeddings`
    outcome,     \* per path: what the operation returned or raised
    last,        \* per path: what the latest single-text request returned or raised
    net,         \* per path: the requests put on the wire, in order
    conn         \* per path: the connections/sessions opened, in order

vars == <<values, environ, client, call, pc, idx, embeddings, outcome, last, net, conn>>

----------------------------------------------------------------------------
(* Bounds *)

MaxLen == 3          \* longest list of texts handed to a batch call

----------------------------------------------------------------------------
(* Python values *)

PyNone == [t |-> "none"]
PyStr(s) == [t |-> "str", v |-> s]
PyInt(n) == [t |-> "int", v |-> n]
PyDict(s) == [t |-> "dict", text |-> s]

\* bool(x) of the values the validator sees: None and "" are falsy
Truthy(x) == x.t = "str" /\ x.v # ""

\* json.dumps of a str, an int and a {"text": ...} dict
json_dumps(m) ==
    CASE m.t = "str"  -> [j |-> "string", v |-> m.v]
      [] m.t = "int"  -> [j |-> "number", v |-> m.v]
      [] m.t = "dict" -> [j |-> "object", text |-> m.text]

----------------------------------------------------------------------------
(* Construction: the fields and check_api_keys *)

DefaultModel == "clir-emb-dolphin"

DefaultApiBase == "clovastudio.apigw.ntruss.com"

RecognizedModels == {"clir-emb-dolphin", "clir-sts-dolphin"}

EnvNames == {"NCP_CLOVASTUDIO_API_KEY", "NCP_APIGW_API_KEY", "NCP_EMB_APP_ID"}

\* variant: the environment wins over the explicit value
get_from_dict_or_env_EnvFirst(data, env, key, env_key) ==
    IF env_key \in DOMAIN env /\ env[env_key] # ""
    THEN [ok |-> TRUE, v |-> env[env_key]]
    ELSE IF data[key].t = "str" /\ data[key].v # ""
         THEN [ok |-> TRUE, v |-> data[key].v]
         ELSE [ok |-> FALSE, v |-> ""]

\* get_from_dict_or_env(data, key, env_key): the value of the dict when it
\* is there and truthy, else the environment variable when it is set and
\* non-empty, else ValueError (no default is passed).
get_from_dict_or_env(data, env, key, env_key) ==
    IF Truthy(data[key])
    THEN [ok |-> TRUE, v |-> data[key].v]
    ELSE IF env_key \in DOMAIN env /\ env[env_key] # ""
         THEN [ok |-> TRUE, v |-> env[env_key]]
         ELSE [ok |-> FALSE, v |-> ""]

convert_to_secret_str(s) == [secret |-> s]

get_secret_value(s) == s.secret

ModelIsValid(m) == m \in RecognizedModels

FailedConstruction == [status |-> "error", error |-> "ValueError"]

check_api_keys(vals, env) ==
    LET api_key    == get_from_dict_or_env(vals, env, "api_key", "NCP_CLOVASTUDIO_API_KEY")
        api_gw_key == get_from_dict_or_env(vals, env, "api_gw_key", "NCP_APIGW_API_KEY")
        app_id     == get_from_dict_or_env(vals, env, "app_id", "NCP_EMB_APP_ID")
    IN  IF ~api_key.ok \/ ~api_gw_key.ok \/ ~app_id.ok
        THEN FailedConstruction
        ELSE IF ~ModelIsValid(vals.model)
             THEN FailedConstruction
             ELSE [status       |-> "configured",
                   model        |-> vals.model,
                   api_key      |-> convert_to_secret_str(api_key.v),
                   api_gw_key   |-> convert_to_secret_str(api_gw_key.v),
                   app_id       |-> convert_to_secret_str(app_id.v),
                   ncp_api_base |-> DefaultApiBase]

----------------------------------------------------------------------------
(* The provider and the wire *)

Paths == {"blocking", "nonblocking"}

Vec1 == <<1, 2, 3>>
Vec2 == <<4, 5, 6>>
Vectors == {Vec1, Vec2}

SuccessBody(v) == [status |-> [code |-> "20000"], result |-> [embedding |-> v]]
FailureBody == [status |-> [code |-> "40001", message |-> "Invalid parameter"]]

\* What the provider side does with one request: a JSON body, a body that
\* is not JSON, or no response at all (the transport fails).
Responses ==
    {[kind |-> "json", parsed |-> SuccessBody(v)] : v \in Vectors}
    \cup {[kind |-> "json", parsed |-> FailureBody],
          [kind |-> "garbage"],
          [kind |-> "transport"]}

IsSuccess(r) == r.kind = "json" /\ r.parsed.status.code = "20000"

Scripts == [1..MaxLen -> Responses]

\* the answer to the n-th request of a path
ResponseTo(n) == IF n \in DOMAIN call.script THEN call.script[n]
                 ELSE [kind |-> "transport"]

\* a raw string, a text-object, and something that is neither
Inputs == {PyStr("a"), PyDict("b"), PyInt(5)}

RECURSIVE SeqsUpTo(_, _)
SeqsUpTo(S, n) ==
    IF n = 0 THEN {<<>>}
    ELSE LET shorter == SeqsUpTo(S, n - 1)
         IN  shorter \cup {Append(s, x) : s \in {q \in shorter : Len(q) = n - 1}, x \in S}

NoCall == [api |-> "none"]

\* the list the batch helper iterates: embed_query and aembed_query pass [text]
Texts == IF call.api = "query" THEN <<call.arg>>
         ELSE IF call.api = "documents" THEN call.arg ELSE <<>>

NoOutcome == [kind |-> "none"]
Returned(v) == [kind |-> "return", value |-> v]
Raised(type, detail) == [kind |-> "raise", type |-> type, detail |-> detail]

NoResponse == [kind |-> "pending"]

----------------------------------------------------------------------------
(* The pieces of the request helpers *)

\* lines 73-76: a str is wrapped into {"text": str}
WrapMessages(messages) ==
    IF messages.t = "str" THEN PyDict(messages.v) ELSE messages

headers == [ContentType |-> "application/json",
            ClovaStudioApiKey |-> get_secret_value(client.api_key),
            ApiGwKey |-> get_secret_value(client.api_gw_key)]

url == [scheme |-> "https",
        host |-> client.ncp_api_base,
        path |-> <<"testapp", "v1", "api-tools", "embedding",
                   client.model, get_secret_value(client.app_id)>>]

\* the POST of _send_request: the wrapped messages are serialised
SendRequestPost(messages) ==
    [method |-> "POST", url |-> url, headers |-> headers,
     body |-> json_dumps(WrapMessages(messages))]

\* the POST of _asend_request: the argument is serialised as it came
ASendRequestPost(messages) ==
    [method |-> "POST", url |-> url, headers |-> headers,
     body |-> json_dumps(messages)]

\* variant: the HTTP status is taken for the provider's status code
StatusOkHttp(result) == result.status.code = "200"

StatusOk(result) == result.status.code = "20000"

\* the tail of both helpers: the embedding, or Exception(f"Error: {result}")
HandleResult(result) ==
    IF StatusOk(result)
    THEN Returned(result.result.embedding)
    ELSE Raised("Exception", result)

\* variant: the new vector goes to the front
PrependEmbedding(embs, v) == <<v>> \o embs

\* embeddings.append(...)
AppendEmbedding(embs, v) == Append(embs, v)

\* variant: the loop stays on the same text
SameIndex(i) == i

\* the for loop moves to the next text
NextIndex(i) == i + 1

\* variant: the vectors collected so far are returned
ReturnPartial(embs, err) == Returned(embs)

\* an exception of the helper is not caught in the loop: the batch call
\* ends with it and the local list is dropped
Propagate(embs, err) == err

CloseLast(cs) == [cs EXCEPT ![Len(cs)].state = "closed"]

Answer(log, r) == [log EXCEPT ![Len(log)].response = r]

----------------------------------------------------------------------------
(* Construction *)

Models == RecognizedModels \cup {"not-a-model"}

FieldValues == {PyNone, PyStr(""), PyStr("k")}

Environs == UNION {[S -> {"", "e"}] : S \in SUBSET EnvNames}

Unconfigured == [status |-> "unconfigured"]

Idle ==
    /\ call = NoCall
    /\ pc = [p \in Paths |-> "idle"]
    /\ idx = [p \in Paths |-> 1]
    /\ embeddings = [p \in Paths |-> <<>>]
    /\ outcome = [p \in Paths |-> NoOutcome]
    /\ last = [p \in Paths |-> NoOutcome]
    /\ net = [p \in Paths |-> <<>>]
    /\ conn = [p \in Paths |-> <<>>]

\* before HCXEmbeddings(...) is evaluated: any keyword arguments, any environment
InitConstruct ==
    /\ values \in [model : Models, api_key : FieldValues,
                   api_gw_key : FieldValues, app_id : FieldValues]
    /\ environ \in Environs
    /\ client = Unconfigured
    /\ Idle

\* HCXEmbeddings(**values): the root validator runs, the object exists or not
Construct ==
    /\ client.status = "unconfigured"
    /\ client' = check_api_keys(values, environ)
    /\ UNCHANGED <<values, environ, call, pc, idx, embeddings, outcome, last, net, conn>>

NextConstruct == Construct

SpecConstruct == InitConstruct /\ [][NextConstruct]_vars

----------------------------------------------------------------------------
(* The embedding operations *)

\* the state after a successful construction: the default model, the keys
\* passed as arguments
Init ==
    /\ values = [model |-> DefaultModel, api_key |-> PyStr("k"),
                 api_gw_key |-> PyStr("k"), app_id |-> PyStr("k")]
    /\ environ = <<>>
    /\ client = check_api_keys(values, environ)
    /\ Idle

\* a caller invokes the blocking and the non-blocking form of one operation
\* with the same argument; the provider will answer both from the same script
Call ==
    /\ client.status = "configured"
    /\ call = NoCall
    /\ \E script \in Scripts :
         \/ \E texts \in SeqsUpTo(Inputs, MaxLen) :
              call' = [api |-> "documents", arg |-> texts, script |-> script]
         \/ \E text \in Inputs :
              call' = [api |-> "query", arg |-> text, script |-> script]
    /\ pc' = [p \in Paths |-> "called"]
    /\ UNCHANGED <<values, environ, client, idx, embeddings, outcome, last, net, conn>>

\* embed_documents(texts) -> _get_embedding(texts): embeddings = []
embed_documents ==
    /\ pc["blocking"] = "called" /\ call.api = "documents"
    /\ pc' = [pc EXCEPT !["blocking"] = "loop"]
    /\ embeddings' = [embeddings EXCEPT !["blocking"] = <<>>]
    /\ idx' = [idx EXCEPT !["blocking"] = 1]
    /\ UNCHANGED <<values, environ, client, call, outcome, last, net, conn>>

\* embed_query(text) -> embed_documents([text])
embed_query ==
    /\ pc["blocking"] = "called" /\ call.api = "query"
    /\ pc' = [pc EXCEPT !["blocking"] = "loop"]
    /\ embeddings' = [embeddings EXCEPT !["blocking"] = <<>>]
    /\ idx' = [idx EXCEPT !["blocking"] = 1]
    /\ UNCHANGED <<values, environ, client, call, outcome, last, net, conn>>

\* aembed_documents(texts) -> await _aget_embedding(texts): embeddings = []
aembed_documents ==
    /\ pc["nonblocking"] = "called" /\ call.api = "documents"
    /\ pc' = [pc EXCEPT !["nonblocking"] = "loop"]
    /\ embeddings' = [embeddings EXCEPT !["nonblocking"] = <<>>]
    /\ idx' = [idx EXCEPT !["nonblocking"] = 1]
    /\ UNCHANGED <<values, environ, client, call, outcome, last, net, conn>>

\* aembed_query(text): `await self.aembed_documents([text])[0]` is
\* `await (self.aembed_documents([text])[0])`: the coroutine object is
\* subscripted before it is ever run, which raises TypeError
aembed_query ==
    /\ pc["nonblocking"] = "called" /\ call.api = "query"
    /\ pc' = [pc EXCEPT !["nonblocking"] = "done"]
    /\ outcome' = [outcome EXCEPT !["nonblocking"] =
                      Raised("TypeError", "'coroutine' object is not subscriptable")]
    /\ UNCHANGED <<values, environ, client, call, idx, embeddings, last, net, conn>>

\* the loop of _get_embedding / _aget_embedding is exhausted: return embeddings
\* (embed_query takes element [0] of the list)
ReturnValue(p) ==
    IF call.api = "query" THEN embeddings[p][1] ELSE embeddings[p]

get_embedding_return ==
    /\ pc["blocking"] = "loop" /\ idx["blocking"] > Len(Texts)
    /\ pc' = [pc EXCEPT !["blocking"] = "done"]
    /\ outcome' = [outcome EXCEPT !["blocking"] = Returned(ReturnValue("blocking"))]
    /\ UNCHANGED <<values, environ, client, call, idx, embeddings, last, net, conn>>

aget_embedding_return ==
    /\ pc["nonblocking"] = "loop" /\ idx["nonblocking"] > Len(Texts)
    /\ pc' = [pc EXCEPT !["nonblocking"] = "done"]
    /\ outcome' = [outcome EXCEPT !["nonblocking"] = Returned(ReturnValue("nonblocking"))]
    /\ UNCHANGED <<values, environ, client, call, idx, embeddings, last, net, conn>>

\* _send_request(text), up to conn.request(...): the type check, then the
\* connection and the POST
send_request ==
    LET p == "blocking"
        messages == Texts[idx[p]]
    IN  /\ pc[p] = "loop" /\ idx[p] <= Len(Texts)
        /\ IF WrapMessages(messages).t # "dict"
           THEN LET err == Raised("TypeError",
                              "Messages should be a string or a dictionary with 'text' key")
                IN  /\ last' = [last EXCEPT ![p] = err]
                    /\ outcome' = [outcome EXCEPT ![p] = Propagate(embeddings[p], err)]
                    /\ pc' = [pc EXCEPT ![p] = "done"]
                    /\ UNCHANGED <<net, conn>>
           ELSE /\ conn' = [conn EXCEPT ![p] =
                               Append(@, [pos |-> idx[p], state |-> "open"])]
                /\ net' = [net EXCEPT ![p] =
                               Append(@, [pos |-> idx[p], messages |-> messages,
                                          request |-> SendRequestPost(messages),
                                          response |-> NoResponse])]
                /\ last' = [last EXCEPT ![p] = NoOutcome]
                /\ pc' = [pc EXCEPT ![p] = "wait"]
                /\ UNCHANGED outcome
        /\ UNCHANGED <<values, environ, client, call, idx, embeddings>>

\* _send_request from conn.getresponse() on: read, json.loads, conn.close(),
\* the status check; back in the loop the vector is appended
send_request_response ==
    LET p == "blocking"
        r == ResponseTo(Len(net[p]))
    IN  /\ pc[p] = "wait"
        /\ IF r.kind # "json"
           THEN \* getresponse() or json.loads raises before conn.close()
                LET err == Raised(IF r.kind = "garbage" THEN "JSONDecodeError"
                                  ELSE "TransportError", r.kind)
                IN  /\ net' = [net EXCEPT ![p] =
                                  IF r.kind = "garbage" THEN Answer(@, r) ELSE @]
                    /\ last' = [last EXCEPT ![p] = err]
                    /\ outcome' = [outcome EXCEPT ![p] = Propagate(embeddings[p], err)]
                    /\ pc' = [pc EXCEPT ![p] = "done"]
                    /\ UNCHANGED <<conn, embeddings, idx>>
           ELSE LET res == HandleResult(r.parsed)
                IN  /\ net' = [net EXCEPT ![p] = Answer(@, r)]
                    /\ conn' = [conn EXCEPT ![p] = CloseLast(@)]
                    /\ last' = [last EXCEPT ![p] = res]
                    /\ IF res.kind = "return"
                       THEN /\ embeddings' = [embeddings EXCEPT ![p] =
                                                AppendEmbedding(@, res.value)]
                            /\ idx' = [idx EXCEPT ![p] = NextIndex(@)]
                            /\ pc' = [pc EXCEPT ![p] = "loop"]
                            /\ UNCHANGED outcome
                       ELSE /\ outcome' = [outcome EXCEPT ![p] =
                                              Propagate(embeddings[p], res)]
                            /\ pc' = [pc EXCEPT ![p] = "done"]
                            /\ UNCHANGED <<embeddings, idx>>
        /\ UNCHANGED <<values, environ, client, call>>

\* _asend_request(text), up to the await of session.post(...): no type
\* check; the session is opened and the POST is sent
asend_request ==
    LET p == "nonblocking"
        messages == Texts[idx[p]]
    IN  /\ pc[p] = "loop" /\ idx[p] <= Len(Texts)
        /\ conn' = [conn EXCEPT ![p] = Append(@, [pos |-> idx[p], state |-> "open"])]
        /\ net' = [net EXCEPT ![p] =
                       Append(@, [pos |-> idx[p], messages |-> messages,
                                  request |-> ASendRequestPost(messages),
                                  response |-> NoResponse])]
        /\ last' = [last EXCEPT ![p] = NoOutcome]
        /\ pc' = [pc EXCEPT ![p] = "wait"]
        /\ UNCHANGED <<values, environ, client, call, idx, embeddings, outcome>>

\* _asend_request from the response on: response.text(), json.loads, the
\* status check; every way out leaves `async with aiohttp.ClientSession()`
asend_request_response ==
    LET p == "nonblocking"
        r == ResponseTo(Len(net[p]))
    IN  /\ pc[p] = "wait"
        /\ conn' = [conn EXCEPT ![p] = CloseLast(@)]
        /\ IF r.kind # "json"
           THEN LET err == Raised(IF r.kind = "garbage" THEN "JSONDecodeError"
                                  ELSE "TransportError", r.kind)
                IN  /\ net' = [net EXCEPT ![p] =
                                  IF r.kind = "garbage" THEN Answer(@, r) ELSE @]
                    /\ last' = [last EXCEPT ![p] = err]
                    /\ outcome' = [outcome EXCEPT ![p] = Propagate(embeddings[p], err)]
                    /\ pc' = [pc EXCEPT ![p] = "done"]
                    /\ UNCHANGED <<embeddings, idx>>
           ELSE LET res == HandleResult(r.parsed)
                IN  /\ net' = [net EXCEPT ![p] = Answer(@, r)]
                    /\ last' = [last EXCEPT ![p] = res]
                    /\ IF res.kind = "return"
                       THEN /\ embeddings' = [embeddings EXCEPT ![p] =
                                                AppendEmbedding(@, res.value)]
                            /\ idx' = [idx EXCEPT ![p] = NextIndex(@)]
                            /\ pc' = [pc EXCEPT ![p] = "loop"]
                            /\ UNCHANGED outcome
                       ELSE /\ outcome' = [outcome EXCEPT ![p] =
                                              Propagate(embeddings[p], res)]
                            /\ pc' = [pc EXCEPT ![p] = "done"]
                            /\ UNCHANGED <<embeddings, idx>>
        /\ UNCHANGED <<values, environ, client, call>>

Next ==
    \/ Call
    \/ embed_documents
    \/ embed_query
    \/ aembed_documents
    \/ aembed_query
    \/ get_embedding_return
    \/ aget_embedding_return
    \/ send_request
    \/ send_request_response
    \/ asend_request
    \/ asend_request_response

Spec == Init /\ [][Next]_vars

----------------------------------------------------------------------------
(* Properties *)

\* a string or a text-object
ValidText(m) == m.t \in {"str", "dict"}

TextOf(m) == IF m.t = "str" THEN m.v ELSE m.text

Pending(p) == {k \in DOMAIN net[p] : net[p][k].response = NoResponse}

\* C1: a batch call on N texts all of whose provider responses are success
\* responses returns exactly N vectors, the i-th being the embedding the
\* provider returned for the i-th text; for N = 0 nothing is requested.
C1_BatchReturnsVectorsInOrder ==
    \A p \in Paths :
        ( /\ call.api = "documents"
          /\ pc[p] = "done"
          /\ \A i \in DOMAIN Texts : ValidText(Texts[i]) /\ IsSuccess(call.script[i]) )
        => /\ outcome[p].kind = "return"
           /\ Len(outcome[p].value) = Len(Texts)
           /\ Len(net[p]) = Len(Texts)
           /\ \A i \in DOMAIN Texts :
                /\ net[p][i].pos = i
                /\ net[p][i].messages = Texts[i]
                /\ IsSuccess(net[p][i].response)
                /\ outcome[p].value[i] = net[p][i].response.parsed.result.embedding

C1_Witness ==
    /\ call.api = "documents"
    /\ Len(Texts) = 3
    /\ \A p \in Paths : pc[p] = "done" /\ outcome[p] = Returned(<<Vec1, Vec2, Vec1>>)

\* C2: within a batch call the requests go out in input order, at most one
\* is in flight, request k+1 starts only after the response to request k was
\* received, and no text is requested twice.
C2_SequentialNoRetry ==
    \A p \in Paths :
        /\ \A k \in DOMAIN net[p] :
             /\ net[p][k].pos \in DOMAIN Texts
             /\ net[p][k].messages = Texts[net[p][k].pos]
             /\ k < Len(net[p]) => net[p][k].response # NoResponse
        /\ \A j, k \in DOMAIN net[p] : j < k => net[p][j].pos < net[p][k].pos
        /\ Cardinality(Pending(p)) <= 1

C2_Witness ==
    \E p \in Paths :
        /\ call.api = "documents"
        /\ pc[p] = "wait"
        /\ Len(net[p]) = 3
        /\ Pending(p) = {3}

\* C3: when the request for the text at position k is the first of a batch
\* call to fail, the batch call fails with that error, nothing is requested
\* for a later position, and no list of vectors is returned.
C3_FirstFailureAborts ==
    \A p \in Paths :
        (call.api = "documents" /\ last[p].kind = "raise")
        => /\ pc[p] = "done"
           /\ outcome[p] = last[p]
           /\ \A k \in DOMAIN net[p] : net[p][k].pos <= idx[p]
           /\ \A k \in DOMAIN conn[p] : conn[p][k].pos <= idx[p]

C3_Witness ==
    \E p \in Paths :
        /\ call.api = "documents"
        /\ Len(Texts) = 3
        /\ idx[p] = 2
        /\ Len(embeddings[p]) = 1
        /\ last[p] = Raised("Exception", FailureBody)
        /\ pc[p] = "done"

\* C4: when a single-text request has parsed the provider's response, it
\* returns the value at result.embedding if status.code is "20000", and
\* otherwise raises an error carrying the whole parsed response and yields no
\* vector; one of the two happens, never both.
C4_StatusDecidesResult ==
    [][ \A p \in Paths :
          (pc[p] = "wait" /\ pc'[p] # "wait" /\ ResponseTo(Len(net[p])).kind = "json")
          => LET result == ResponseTo(Len(net[p])).parsed
             IN  IF result.status.code = "20000"
                 THEN /\ last'[p] = Returned(result.result.embedding)
                      /\ embeddings'[p] = Append(embeddings[p], result.result.embedding)
                 ELSE /\ last'[p] = Raised("Exception", result)
                      /\ embeddings'[p] = embeddings[p]
                      /\ outcome'[p].kind = "raise" ]_vars

C4_Witness ==
    /\ last["blocking"] = Returned(Vec1)
    /\ last["nonblocking"] = Raised("Exception", FailureBody)

\* C5: a single-text request whose input is neither a string nor a
\* text-object fails with the invalid-input error before any network call, on
\* both paths: no connection or session is opened and nothing is sent for it.
C5_InvalidInputBeforeNetwork ==
    \A p \in Paths :
        \A i \in DOMAIN Texts :
            ~ValidText(Texts[i])
            => /\ \A k \in DOMAIN net[p] : net[p][k].pos # i
               /\ \A k \in DOMAIN conn[p] : conn[p][k].pos # i
               /\ (call.api = "documents" /\ idx[p] = i /\ pc[p] = "done")
                  => (last[p].kind = "raise" /\ last[p].type = "TypeError")

\* C6: every request sent, by either path and for a raw string as for a
\* text-object, has the JSON object {"text": <input text>} as its body.
C6_BodyIsTextObject ==
    \A p \in Paths :
        \A k \in DOMAIN net[p] :
            ValidText(net[p][k].messages)
            => net[p][k].request.body =
                   [j |-> "object", text |-> TextOf(net[p][k].messages)]

\* C7: given identical provider responses, a blocking operation and its
\* non-blocking counterpart end the same way: the same vectors on success, a
\* failure in the same cases.
C7_BlockingEqualsNonBlocking ==
    (\A p \in Paths : pc[p] = "done")
    => /\ outcome["blocking"].kind = outcome["nonblocking"].kind
       /\ outcome["blocking"].kind = "return"
          => outcome["blocking"].value = outcome["nonblocking"].value

\* C8: for a text t and a success response, query embedding returns the only
\* vector of the single-element batch [t], in both variants, and issues
\* exactly one request.
C8_QueryIsFirstOfBatch ==
    \A p \in Paths :
        ( /\ call.api = "query"
          /\ pc[p] = "done"
          /\ ValidText(call.arg)
          /\ IsSuccess(call.script[1]) )
        => /\ outcome[p] = Returned(call.script[1].parsed.result.embedding)
           /\ Len(net[p]) = 1

\* C9: construction succeeds exactly when the model is one of the two
\* recognized identifiers and each of the three secrets is available, as an
\* explicitly supplied value or else from its environment variable; the
\* environment is used only for a secret not supplied explicitly; otherwise
\* construction fails and there is no client.
Supplied(x) == x # PyNone /\ x # PyStr("")

InEnviron(name) == name \in DOMAIN environ /\ environ[name] # ""

Resolved(field, name) ==
    IF Supplied(values[field]) THEN values[field].v ELSE environ[name]

C9_ConstructionValidates ==
    client.status # "unconfigured"
    => /\ client.status = "configured"
          <=> /\ values.model \in {"clir-emb-dolphin", "clir-sts-dolphin"}
              /\ Supplied(values.api_key) \/ InEnviron("NCP_CLOVASTUDIO_API_KEY")
              /\ Supplied(values.api_gw_key) \/ InEnviron("NCP_APIGW_API_KEY")
              /\ Supplied(values.app_id) \/ InEnviron("NCP_EMB_APP_ID")
       /\ client.status = "configured"
          => /\ client.model = values.model
             /\ client.api_key.secret = Resolved("api_key", "NCP_CLOVASTUDIO_API_KEY")
             /\ client.api_gw_key.secret = Resolved("api_gw_key", "NCP_APIGW_API_KEY")
             /\ client.app_id.secret = Resolved("app_id", "NCP_EMB_APP_ID")
       /\ client.status # "configured"
          => client = [status |-> "error", error |-> "ValueError"]

C9_Witness ==
    /\ client.status = "configured"
    /\ values.api_key = PyNone
    /\ values.api_gw_key = PyStr("")
    /\ values.app_id = PyStr("k")
    /\ DOMAIN environ = EnvNames
    /\ client.app_id.secret = "k"
    /\ client.api_key.secret = "e"

\* C10: every connection or session a single-text request opened is closed
\* by the time that request has returned or raised, on every exit path and
\* on both paths.
C10_ConnectionsClosed ==
    \A p \in Paths :
        pc[p] \in {"loop", "done"}
        => \A k \in DOMAIN conn[p] : conn[p][k].state = "closed"

====
